---- MODULE Spec2Model ----
(***************************************************************************)
(* Model of server.go: five fiber handlers over the "todos" collection of  *)
(* one MongoDB database.  The collection is the only shared state; every   *)
(* request runs in its own worker.  All handlers but POST / issue a single *)
(* store command and are one atomic step; POST / issues InsertOne and then *)
(* FindOne, so other requests may run between its two steps.               *)
(***************************************************************************)
EXTENDS FiniteSets, Integers, Sequences, TLC

\* Number of ObjectIDs the driver hands out in a run (caps the id counter).
MaxOid == 2

\* Number of POST workers that may sit between InsertOne and FindOne at once.
MaxInflight == 1

-----------------------------------------------------------------------------
(* Strings that stand for identifiers.  A string is either empty, a 24     *)
(* digit hex string (naming an ObjectID, written in lower or upper case),  *)
(* or anything else ("bad": wrong length or a non-hex character).          *)

EmptyStr == [kind |-> "empty", oid |-> 0, upper |-> FALSE]

BadStr == [kind |-> "bad", oid |-> 0, upper |-> FALSE]

HexStr(o, u) == [kind |-> "hex", oid |-> o, upper |-> u]

\* ObjectIDs a client may name: the ones the driver generates in a run.
OIDs == 1..MaxOid

\* Values of the :id path parameter (never empty: "/" is another route).
\* Every ObjectID in lower case, the first one also in upper case, and a
\* string that is no ObjectID.
Params == {HexStr(o, FALSE) : o \in OIDs} \cup {HexStr(1, TRUE), BadStr}

\* primitive.ObjectID.Hex: always lower case.
Hex(o) == HexStr(o, FALSE)

\* primitive.ObjectIDFromHex: accepts both cases, rejects everything else.
ObjectIDFromHex(s) ==
    IF s.kind = "hex" THEN [err |-> FALSE, oid |-> s.oid]
                      ELSE [err |-> TRUE, oid |-> 0]

-----------------------------------------------------------------------------
(* The Todo struct and request bodies.                                     *)

Todo(id, text, completed) == [ID |-> id, Text |-> text, Completed |-> completed]

\* new(Todo) / &Todo{}
ZeroTodo == Todo(EmptyStr, "", FALSE)

\* Request bodies, as what they hold once decoded: {"text":"X"} (no
\* "completed": false), {"completed":true} (no "text": empty), {"text":"X"}
\* with the id of the first record as "id", and one that is not decodable.
Bodies ==
    {[wellFormed |-> TRUE, ID |-> EmptyStr, Text |-> "X", Completed |-> FALSE],
     [wellFormed |-> TRUE, ID |-> EmptyStr, Text |-> "", Completed |-> TRUE],
     [wellFormed |-> TRUE, ID |-> Hex(1), Text |-> "X", Completed |-> FALSE],
     [wellFormed |-> FALSE, ID |-> EmptyStr, Text |-> "", Completed |-> FALSE]}

\* c.BodyParser(todo)
BodyParser(body) ==
    IF body.wellFormed
    THEN [err |-> FALSE, todo |-> Todo(body.ID, body.Text, body.Completed)]
    ELSE [err |-> TRUE, todo |-> ZeroTodo]

-----------------------------------------------------------------------------
(* The collection: a function from ObjectID to document.  Each command     *)
(* takes ok, FALSE when the command fails (connection loss, timeout).      *)

Doc(text, completed) == [text |-> text, completed |-> completed]

\* Injective sequences over S: the orders a cursor may yield S in.
Orders(S) ==
    {s \in [1..Cardinality(S) -> S] : \A i, j \in 1..Cardinality(S) : s[i] = s[j] => i = j}

\* Decoding one stored document into a Todo (_id is rendered as hex).
DecodeDoc(st, o) == Todo(Hex(o), st[o].text, st[o].completed)

\* Collection.Find(query = {}) followed by cursor.All(&todos)
Find(st, ok) == [err |-> ~ok]

CursorAll(st, order, ok) ==
    IF ok THEN [err |-> FALSE, todos |-> [i \in 1..Len(order) |-> DecodeDoc(st, order[i])]]
          ELSE [err |-> TRUE, todos |-> <<>>]

\* Collection.InsertOne(todo) with an empty _id: the driver generates one.
InsertOne(st, next, todo, ok) ==
    IF ok
    THEN [err |-> FALSE, InsertedID |-> next,
          store |-> [o \in DOMAIN st \cup {next} |->
                        IF o = next THEN Doc(todo.Text, todo.Completed) ELSE st[o]]]
    ELSE [err |-> TRUE, InsertedID |-> 0, store |-> st]

\* Collection.FindOne(filter = {_id: o}): always a non-nil *SingleResult,
\* which carries the error, if any.
FindOne(st, o, ok) ==
    [isNil |-> FALSE,
     err |-> IF ~ok THEN "StoreError"
             ELSE IF o \in DOMAIN st THEN "nil" ELSE "ErrNoDocuments",
     todo |-> IF ok /\ o \in DOMAIN st THEN DecodeDoc(st, o) ELSE ZeroTodo]

\* SingleResult.Decode(target): on error the target is left as it was.
Decode(record, target) == IF record.err = "nil" THEN record.todo ELSE target

\* Collection.FindOneAndUpdate(query, {$set: {text, completed}}).Err()
FindOneAndUpdate(st, o, text, completed, ok) ==
    IF ~ok THEN [err |-> "StoreError", store |-> st]
    ELSE IF o \notin DOMAIN st THEN [err |-> "ErrNoDocuments", store |-> st]
    ELSE [err |-> "nil", store |-> [st EXCEPT ![o] = Doc(text, completed)]]

\* Collection.DeleteOne(query = {_id: o})
DeleteOne(st, o, ok) ==
    IF ~ok THEN [err |-> TRUE, DeletedCount |-> 0, store |-> st]
    ELSE IF o \in DOMAIN st
         THEN [err |-> FALSE, DeletedCount |-> 1,
               store |-> [p \in DOMAIN st \ {o} |-> st[p]]]
         ELSE [err |-> FALSE, DeletedCount |-> 0, store |-> st]

-----------------------------------------------------------------------------
(* Handlers, as functions of the collection and the request.  kind says    *)
(* what the response body is: "todo" and "list" are JSON, "text" is an     *)
(* error text, "none" is a bare status.                                    *)

Response(status, kind, todo, list, st) ==
    [status |-> status, kind |-> kind, todo |-> todo, list |-> list, store |-> st]

\* GET / that reports an empty result set as a failure.
GetAllHandler_EmptyIsError(st, order, findOk, allOk) ==
    LET cursor == Find(st, findOk) IN
    IF cursor.err THEN Response(500, "text", ZeroTodo, <<>>, st)
    ELSE LET all == CursorAll(st, order, allOk) IN
         IF all.err \/ all.todos = <<>> THEN Response(500, "text", ZeroTodo, <<>>, st)
         ELSE Response(200, "list", ZeroTodo, all.todos, st)

\* GET /
GetAllHandler(st, order, findOk, allOk) ==
    LET cursor == Find(st, findOk) IN
    IF cursor.err THEN Response(500, "text", ZeroTodo, <<>>, st)
    ELSE LET all == CursorAll(st, order, allOk) IN
         IF all.err THEN Response(500, "text", ZeroTodo, <<>>, st)
         ELSE Response(200, "list", ZeroTodo, all.todos, st)

\* GET /:id that answers with the path parameter as id, as PUT /:id does.
GetOneHandler_IdFromParam(st, id, ok) ==
    LET p == ObjectIDFromHex(id) IN
    IF p.err THEN Response(400, "none", ZeroTodo, <<>>, st)
    ELSE LET record == FindOne(st, p.oid, ok) IN
         IF record.isNil THEN Response(404, "text", ZeroTodo, <<>>, st)
         ELSE Response(200, "todo", [Decode(record, ZeroTodo) EXCEPT !.ID = id], <<>>, st)

\* GET /:id
GetOneHandler(st, id, ok) ==
    LET p == ObjectIDFromHex(id) IN
    IF p.err THEN Response(400, "none", ZeroTodo, <<>>, st)
    ELSE LET record == FindOne(st, p.oid, ok) IN
         IF record.isNil THEN Response(404, "text", ZeroTodo, <<>>, st)
         ELSE Response(200, "todo", Decode(record, ZeroTodo), <<>>, st)

\* The answer the variants of PUT /:id below build from the result r of the
\* update.
PutAnswer(idParam, todo, r) ==
    IF r.err # "nil"
    THEN IF r.err = "ErrNoDocuments"
         THEN Response(404, "none", ZeroTodo, <<>>, r.store)
         ELSE Response(500, "none", ZeroTodo, <<>>, r.store)
    ELSE Response(200, "todo", Todo(idParam, todo.Text, todo.Completed), <<>>, r.store)

\* PUT /:id that does not look at the error of ObjectIDFromHex.
PutHandler_NoIdCheck(st, idParam, body, ok) ==
    LET p == ObjectIDFromHex(idParam)
        b == BodyParser(body) IN
    IF b.err THEN Response(400, "text", ZeroTodo, <<>>, st)
    ELSE PutAnswer(idParam, b.todo,
                   FindOneAndUpdate(st, p.oid, b.todo.Text, b.todo.Completed, ok))

\* PUT /:id whose $set names "text" only.
PutHandler_TextOnly(st, idParam, body, ok) ==
    LET p == ObjectIDFromHex(idParam) IN
    IF p.err THEN Response(400, "none", ZeroTodo, <<>>, st)
    ELSE LET b == BodyParser(body) IN
         IF b.err THEN Response(400, "text", ZeroTodo, <<>>, st)
         ELSE PutAnswer(idParam, b.todo,
                        FindOneAndUpdate(st, p.oid, b.todo.Text,
                            IF p.oid \in DOMAIN st THEN st[p.oid].completed ELSE FALSE, ok))

\* PUT /:id whose update runs with upsert: a missing record is created.
PutHandler_Upsert(st, idParam, body, ok) ==
    LET p == ObjectIDFromHex(idParam) IN
    IF p.err THEN Response(400, "none", ZeroTodo, <<>>, st)
    ELSE LET b == BodyParser(body) IN
         IF b.err THEN Response(400, "text", ZeroTodo, <<>>, st)
         ELSE IF ok /\ p.oid \notin DOMAIN st
              THEN Response(200, "todo", Todo(idParam, b.todo.Text, b.todo.Completed), <<>>,
                            [o \in DOMAIN st \cup {p.oid} |->
                                IF o = p.oid THEN Doc(b.todo.Text, b.todo.Completed) ELSE st[o]])
              ELSE PutAnswer(idParam, b.todo,
                             FindOneAndUpdate(st, p.oid, b.todo.Text, b.todo.Completed, ok))

\* PUT /:id
PutHandler(st, idParam, body, ok) ==
    LET p == ObjectIDFromHex(idParam) IN
    IF p.err THEN Response(400, "none", ZeroTodo, <<>>, st)
    ELSE LET b == BodyParser(body) IN
         IF b.err THEN Response(400, "text", ZeroTodo, <<>>, st)
         ELSE LET r == FindOneAndUpdate(st, p.oid, b.todo.Text, b.todo.Completed, ok) IN
              IF r.err # "nil"
              THEN IF r.err = "ErrNoDocuments"
                   THEN Response(404, "none", ZeroTodo, <<>>, r.store)
                   ELSE Response(500, "none", ZeroTodo, <<>>, r.store)
              ELSE Response(200, "todo",
                            Todo(idParam, b.todo.Text, b.todo.Completed), <<>>, r.store)

\* DELETE /:id that does not look at DeletedCount.
DeleteHandler_NoCountCheck(st, id, ok) ==
    LET p == ObjectIDFromHex(id) IN
    IF p.err THEN Response(400, "none", ZeroTodo, <<>>, st)
    ELSE LET result == DeleteOne(st, p.oid, ok) IN
         IF result.err THEN Response(500, "none", ZeroTodo, <<>>, result.store)
         ELSE Response(204, "none", ZeroTodo, <<>>, result.store)

\* DELETE /:id
DeleteHandler(st, id, ok) ==
    LET p == ObjectIDFromHex(id) IN
    IF p.err THEN Response(400, "none", ZeroTodo, <<>>, st)
    ELSE LET result == DeleteOne(st, p.oid, ok) IN
         IF result.err THEN Response(500, "none", ZeroTodo, <<>>, result.store)
         ELSE IF result.DeletedCount < 1
              THEN Response(404, "none", ZeroTodo, <<>>, result.store)
              ELSE Response(204, "none", ZeroTodo, <<>>, result.store)

\* POST /, up to and including InsertOne.  done says whether the handler has
\* returned; if not, InsertedID is what the second half reads back.
PostInsertHandler(st, next, body, ok) ==
    LET b == BodyParser(body) IN
    IF b.err THEN [done |-> TRUE, InsertedID |-> 0,
                   resp |-> Response(400, "text", ZeroTodo, <<>>, st)]
    ELSE LET todo == [b.todo EXCEPT !.ID = EmptyStr]
             insertionResult == InsertOne(st, next, todo, ok) IN
         IF insertionResult.err
         THEN [done |-> TRUE, InsertedID |-> 0,
               resp |-> Response(500, "text", ZeroTodo, <<>>, insertionResult.store)]
         ELSE [done |-> FALSE, InsertedID |-> insertionResult.InsertedID,
               resp |-> Response(0, "none", ZeroTodo, <<>>, insertionResult.store)]

\* POST /, from FindOne on: read the inserted record back and answer 201.
PostReadBackHandler(st, insertedID, ok) ==
    LET createdRecord == FindOne(st, insertedID, ok)
        createdTodo == Decode(createdRecord, ZeroTodo) IN
    Response(201, "todo", createdTodo, <<>>, st)

-----------------------------------------------------------------------------
VARIABLES
    store,      \* the "todos" collection
    nextOid,    \* the driver's ObjectID generator
    inflight,   \* POST workers between InsertOne and FindOne: request body, inserted
                \* id, and whether the body's id named a record when InsertOne ran
    resp,       \* the last response sent, with its request
    issued,     \* ids carried by the 201 responses sent so far
    posted      \* ObjectID -> body of its 201 response, while no PUT or DELETE named it

vars == <<store, nextOid, inflight, resp, issued, posted>>

NoBody == [wellFormed |-> FALSE, ID |-> EmptyStr, Text |-> "", Completed |-> FALSE]

Event(op, id, body, storeOk, r) ==
    [op |-> op, id |-> id, bodyOk |-> body.wellFormed, storeOk |-> storeOk,
     status |-> r.status, kind |-> r.kind, todo |-> r.todo, list |-> r.list]

\* Does the string s name a record of st?
NamesRecord(st, s) == ~ObjectIDFromHex(s).err /\ ObjectIDFromHex(s).oid \in DOMAIN st

Without(f, o) == [p \in DOMAIN f \ {o} |-> f[p]]

Init ==
    /\ store = <<>>
    /\ nextOid = 1
    /\ inflight = {}
    /\ resp = Event("none", EmptyStr, NoBody, TRUE, Response(0, "none", ZeroTodo, <<>>, <<>>))
    /\ issued = {}
    /\ posted = <<>>

GetAll(order, findOk, allOk) ==
    LET r == GetAllHandler(store, order, findOk, allOk) IN
    /\ resp' = Event("GETALL", EmptyStr, NoBody, findOk /\ allOk, r)
    /\ store' = r.store
    /\ UNCHANGED <<nextOid, inflight, issued, posted>>

GetOne(id, ok) ==
    LET r == GetOneHandler(store, id, ok) IN
    /\ resp' = Event("GET", id, NoBody, ok, r)
    /\ store' = r.store
    /\ UNCHANGED <<nextOid, inflight, issued, posted>>

Put(id, body, ok) ==
    LET r == PutHandler(store, id, body, ok)
        p == ObjectIDFromHex(id) IN
    /\ resp' = Event("PUT", id, body, ok, r)
    /\ store' = r.store
    /\ posted' = IF ~p.err /\ p.oid \in DOMAIN posted THEN Without(posted, p.oid) ELSE posted
    /\ UNCHANGED <<nextOid, inflight, issued>>

Delete(id, ok) ==
    LET r == DeleteHandler(store, id, ok)
        p == ObjectIDFromHex(id) IN
    /\ resp' = Event("DELETE", id, NoBody, ok, r)
    /\ store' = r.store
    /\ posted' = IF ~p.err /\ p.oid \in DOMAIN posted THEN Without(posted, p.oid) ELSE posted
    /\ UNCHANGED <<nextOid, inflight, issued>>

PostInsert(body, ok) ==
    /\ nextOid <= MaxOid
    /\ Cardinality(inflight) < MaxInflight
    /\ LET h == PostInsertHandler(store, nextOid, body, ok) IN
       /\ store' = h.resp.store
       /\ IF h.done
          THEN /\ resp' = Event("POST", EmptyStr, body, ok, h.resp)
               /\ UNCHANGED <<nextOid, inflight>>
          ELSE /\ nextOid' = nextOid + 1
               /\ inflight' = inflight \cup
                     {[body |-> body, InsertedID |-> h.InsertedID,
                       existing |-> NamesRecord(store, body.ID)]}
               /\ UNCHANGED resp
    /\ UNCHANGED <<issued, posted>>

PostReadBack(w, ok) ==
    /\ w \in inflight
    /\ LET r == PostReadBackHandler(store, w.InsertedID, ok) IN
       /\ resp' = Event("POST", Hex(w.InsertedID), w.body, ok, r)
       /\ store' = r.store
       /\ issued' = issued \cup {r.todo.ID}
       /\ posted' = IF r.todo.ID.kind = "hex"
                    THEN [o \in DOMAIN posted \cup {r.todo.ID.oid} |->
                             IF o = r.todo.ID.oid THEN r.todo ELSE posted[o]]
                    ELSE posted
    /\ inflight' = inflight \ {w}
    /\ UNCHANGED nextOid

Next ==
    \/ \E order \in Orders(DOMAIN store), findOk, allOk \in BOOLEAN : GetAll(order, findOk, allOk)
    \/ \E id \in Params, ok \in BOOLEAN : GetOne(id, ok)
    \/ \E id \in Params, body \in Bodies, ok \in BOOLEAN : Put(id, body, ok)
    \/ \E id \in Params, ok \in BOOLEAN : Delete(id, ok)
    \/ \E body \in Bodies, ok \in BOOLEAN : PostInsert(body, ok)
    \/ \E w \in inflight, ok \in BOOLEAN : PostReadBack(w, ok)

Spec == Init /\ [][Next]_vars

-----------------------------------------------------------------------------
(* Properties.  A request whose store command fails is answered 500 (or,   *)
(* where the handler drops the error, with a zero record); the properties  *)
(* below are about requests whose store commands succeed.                  *)

Oid(s) == ObjectIDFromHex(s).oid

Invalid(s) == ObjectIDFromHex(s).err

\* The step in which POST worker w reads its record back and answers.
ReadBackStep(w) == w \in inflight /\ inflight' = inflight \ {w}

\* The steps in which a request other than POST / is answered; the request
\* is read off the response it leaves in resp.
GetOneStep == resp'.op = "GET" /\ GetOne(resp'.id, resp'.storeOk)

PutStep(body) == resp'.op = "PUT" /\ Put(resp'.id, body, resp'.storeOk)

DeleteStep == resp'.op = "DELETE" /\ Delete(resp'.id, resp'.storeOk)

\* The order GET / listed the records in.
ListOrder(list) == [i \in 1..Len(list) |-> Oid(list[i].ID)]

\* On failure the list is empty and the order plays no part.
GetAllStep ==
    /\ resp'.op = "GETALL"
    /\ \/ resp'.storeOk /\ ListOrder(resp'.list) \in Orders(DOMAIN store)
                       /\ GetAll(ListOrder(resp'.list), TRUE, TRUE)
       \/ ~resp'.storeOk /\ \E allOk \in BOOLEAN : GetAll(<<>>, FALSE, allOk)
       \/ ~resp'.storeOk /\ GetAll(<<>>, TRUE, FALSE)

\* C1: GET /:id with a structurally valid id that matches no record answers
\* 404, never 200 with a record body.
C1_GetMissingIs404 ==
    (resp.op = "GET" /\ resp.storeOk /\ ~Invalid(resp.id) /\ Oid(resp.id) \notin DOMAIN store)
        => (resp.status = 404 /\ resp.kind # "todo")

\* C2: every 201 response of POST / carries an id that is non-empty and
\* differs from the id of every earlier 201 response, whatever runs
\* concurrently with the POST.
C2_PostIdFreshNonEmpty ==
    [][\A w \in inflight :
          (ReadBackStep(w) /\ resp'.storeOk /\ resp'.status = 201)
              => (resp'.todo.ID # EmptyStr /\ resp'.todo.ID \notin issued)]_vars

\* C3: once POST / has answered 201 with id i, and as long as no PUT or
\* DELETE names i, GET /i answers 200 with the id, text and completed of that
\* 201 response.
C3_RoundTrip ==
    (resp.op = "GET" /\ resp.storeOk /\ ~Invalid(resp.id) /\ Oid(resp.id) \in DOMAIN posted)
        => (/\ resp.status = 200
            /\ resp.kind = "todo"
            /\ resp.todo = posted[Oid(resp.id)]
            /\ resp.todo.ID = Hex(Oid(resp.id)))

C3_Witness ==
    /\ resp.op = "GET" /\ resp.storeOk /\ resp.status = 200
    /\ resp.id.kind = "hex" /\ resp.id.upper
    /\ Oid(resp.id) \in DOMAIN posted
    /\ resp.todo = Todo(Hex(Oid(resp.id)), "X", FALSE)

\* C4: GET, PUT and DELETE /:id with a path id that is no valid identifier
\* answer 400, whatever the body and the collection, and leave the
\* collection unchanged.
C4_InvalidIdIs400 ==
    [][(Invalid(resp'.id) /\ (GetOneStep \/ DeleteStep \/ \E body \in Bodies : PutStep(body)))
          => (resp'.status = 400 /\ store' = store)]_vars

C4_Witness ==
    /\ resp.op = "PUT" /\ Invalid(resp.id) /\ resp.bodyOk
    /\ resp.status = 400
    /\ store # <<>>

\* C5: DELETE /:id with a valid id that matches no record answers 404 and
\* leaves the collection unchanged; DELETE of an existing record answers 204
\* and removes exactly that record, and a second DELETE of it answers 404.
C5_DeleteMissingIs404 ==
    [][(DeleteStep /\ resp'.storeOk /\ ~Invalid(resp'.id)) =>
          IF Oid(resp'.id) \notin DOMAIN store
          THEN resp'.status = 404 /\ store' = store
          ELSE /\ resp'.status = 204
               /\ store' = Without(store, Oid(resp'.id))
               /\ DeleteHandler(store', resp'.id, TRUE).status = 404
               /\ DeleteHandler(store', resp'.id, TRUE).store = store']_vars

C5_Witness ==
    /\ resp.op = "DELETE" /\ resp.storeOk /\ resp.status = 404
    /\ ~Invalid(resp.id)
    /\ Oid(resp.id) < nextOid
    /\ Oid(resp.id) \notin DOMAIN store
    /\ store # <<>>

\* C6: when PUT /:id answers 200 for record R, a GET of R's id right after
\* it answers with R's id and the text and completed of the PUT body; the
\* PUT adds no record, removes none and leaves every other record as it was.
C6_PutUpdatesOnlyFields ==
    [][\A body \in Bodies :
          (resp'.status = 200 /\ PutStep(body)) =>
              LET R == Oid(resp'.id) IN
              /\ R \in DOMAIN store
              /\ DOMAIN store' = DOMAIN store
              /\ \A o \in DOMAIN store \ {R} : store'[o] = store[o]
              /\ GetOneHandler(store', Hex(R), TRUE).status = 200
              /\ GetOneHandler(store', Hex(R), TRUE).todo
                     = Todo(Hex(R), body.Text, body.Completed)
              /\ GetOneHandler(store', resp'.id, TRUE).todo
                     = Todo(Hex(R), body.Text, body.Completed)]_vars

C6_Witness ==
    /\ resp.op = "PUT" /\ resp.status = 200
    /\ Cardinality(DOMAIN store) = 2
    /\ resp.id.upper
    /\ store[Oid(resp.id)] = Doc("", TRUE)
    /\ \E o \in DOMAIN store : store[o] = Doc("X", FALSE)

\* C7: PUT /:id with a well-formed body and a valid id that matches no
\* record answers 404 and leaves the collection as it was.
C7_PutMissingIs404 ==
    [][\A body \in Bodies :
          (resp'.storeOk /\ body.wellFormed /\ ~Invalid(resp'.id)
              /\ Oid(resp'.id) \notin DOMAIN store /\ PutStep(body))
          => (resp'.status = 404 /\ store' = store)]_vars

C7_Witness ==
    /\ resp.op = "PUT" /\ resp.storeOk /\ resp.bodyOk /\ resp.status = 404
    /\ ~Invalid(resp.id)
    /\ Oid(resp.id) \notin DOMAIN store
    /\ store # <<>>

\* C8: GET / answers 200 with exactly the records of the collection, each
\* once, in some order; on an empty collection 200 with an empty sequence;
\* it never changes the collection.
C8_ListIsCollection ==
    [][GetAllStep =>
          /\ store' = store
          /\ resp'.storeOk =>
                /\ resp'.status = 200
                /\ resp'.kind = "list"
                /\ Len(resp'.list) = Cardinality(DOMAIN store)
                /\ {resp'.list[i] : i \in 1..Len(resp'.list)}
                      = {DecodeDoc(store, o) : o \in DOMAIN store}]_vars

C8_Witness ==
    /\ resp.op = "GETALL" /\ resp.status = 200 /\ resp.kind = "list"
    /\ resp.list = <<>>
    /\ store = <<>>
    /\ nextOid > MaxOid
    /\ inflight = {}

\* C9: when the body of POST / carries the id of an existing record, POST
\* adds exactly one record, leaves the existing records unchanged, and
\* answers 201 with the id the store generated, which differs from the one
\* supplied.
C9_SuppliedIdDiscarded ==
    [][/\ \A w \in inflight' \ inflight :
            w.existing =>
                /\ w.InsertedID \notin DOMAIN store
                /\ DOMAIN store' = DOMAIN store \cup {w.InsertedID}
                /\ \A o \in DOMAIN store : store'[o] = store[o]
       /\ \A w \in inflight :
            (ReadBackStep(w) /\ w.existing /\ resp'.storeOk) =>
                /\ resp'.status = 201
                /\ resp'.todo.ID = Hex(w.InsertedID)
                /\ resp'.todo.ID # w.body.ID]_vars

\* C10: the 201 response of POST / carries the text and completed this POST
\* persisted, whatever other requests run between its insert and its
\* read-back.
C10_PostAnswersWhatItStored ==
    [][\A w \in inflight :
          (ReadBackStep(w) /\ resp'.storeOk) =>
              /\ resp'.status = 201
              /\ resp'.todo.Text = w.body.Text
              /\ resp'.todo.Completed = w.body.Completed]_vars

====
